---------------------------- MODULE Spec2Model ----------------------------
(***************************************************************************)
(* Model of the complex graphing calculator (OscarLitorell/complex-graphing): *)
(* the Complex arithmetic, the stack interpreter userFunction, the batch    *)
(* sampler updateFunctionValues and the handlers that drive them.           *)
(*                                                                         *)
(* Conventions of the model                                                *)
(*  - A JavaScript double is a record [t, n]: t = "fin" with the integer n, *)
(*    or "nan", "pinf", "ninf"; "pi" and "e" are Math.PI and Math.E, and    *)
(*    "untracked" is a double whose value the model does not compute (the   *)
(*    result of sqrt, log, exp, cos, sin, atan2 off their exact points).    *)
(*    -0 is not told apart from 0 (=== does not tell them apart either).    *)
(*  - A JavaScript string is a sequence of one-character strings.           *)
(*  - A value on the interpreter's stack is a record [tag, re, im] with tag *)
(*    "Complex", "number" (a bare double, kept in re) or "undefined".       *)
(***************************************************************************)
EXTENDS Integers, Sequences, FiniteSets, TLC

VARIABLES
    \* ---- the page (src/unnamed/part_000) ----
    textarea,         \* value of the <textarea id="function">
    functionText,     \* let functionText (line 576)
    variableList,     \* let variableList (line 538)
    minX, maxX,       \* values of the inputs minX and maxX
    resolution,       \* value of the input resolution
    resultList,       \* var resultList (line 470)
    updateRequested,  \* let updateRequested (line 485)
    pendingFrames,    \* number of callbacks given to requestAnimationFrame that
                      \* have not run yet
    batchOutcome,     \* how the last updateFunctionValues ended: "ok", the error
                      \* thrown, or "hung" when its loop never ends
    frameOutcome,     \* how the last frame ended: "ok" or the error thrown
    batchStep,        \* history: the step of the last updateFunctionValues
    drawStep,         \* history: the step the last frame gave drawFunction
    \* ---- one call of userFunction (lines 610-673) ----
    num,              \* the argument of the call
    functionList,     \* let functionList
    pc,               \* index of the next token, 0 when no call is running
    functionStack,    \* let functionStack
    calculatedVars,   \* let calculatedVars
    status,           \* "idle", "running", "returned", "TypeError"
    returned,         \* history: the result returned for each argument so far
    \* ---- one call of a Complex operation (src/script.js) ----
    cxOp, cxA, cxB, cxOut,
    \* ---- one call of parseNumber ----
    numberText,       \* the string given to parseNumber
    parsed,           \* what parseNumber of the page script returned for it
    parsedScript,     \* what parseNumber of src/script.js returned for it
    \* ---- the view and the gestures on the canvas (part_000) ----
    view,             \* var view (line 467)
    offsetInputs,     \* values of the inputs x-offset, y-offset and z-offset
    listeners,        \* the listeners the gestures added to mainCanvas, in the
                      \* order of their addEventListener calls
    gestures,         \* the closures of the rotateGraph and moveGraph calls so far
    lastEvent,        \* history: the last event handled and whether a handler threw
    \* ---- the 2d context of the canvas (drawCanvas3d, lines 250-294) ----
    ctx,              \* ctx.lineWidth (in half pixels) and ctx.strokeStyle
    stroked           \* history: the segment the last drawCanvas3d stroked

pageVars == <<textarea, functionText, variableList, minX, maxX, resolution,
              resultList, updateRequested, pendingFrames, batchOutcome, frameOutcome,
              batchStep, drawStep>>
\* the page's variables other than the registry
displayVars == <<textarea, functionText, minX, maxX, resolution, resultList,
                 updateRequested, pendingFrames, batchOutcome, frameOutcome,
                 batchStep, drawStep>>
callVars == <<num, functionList, pc, functionStack, calculatedVars, status, returned>>
cxVars   == <<cxOp, cxA, cxB, cxOut>>
parseVars == <<numberText, parsed, parsedScript>>
\* the variables that neither the page, nor a call of userFunction, nor a
\* Complex operation assigns
viewVars == <<view, offsetInputs, listeners, gestures, lastEvent>>
drawVars == <<ctx, stroked>>
auxVars  == <<parseVars, viewVars, drawVars>>
vars     == <<pageVars, callVars, cxVars, auxVars>>

-----------------------------------------------------------------------------
(* Bounds of the model *)

\* Largest absolute value of an integer operand drawn for a Complex operation.
MaxOperand == 1
\* Most lines of a function text given to the interpreter.
MaxLines == 3
\* Most tokens of a function list in the calls that test the dispatch.
MaxDispatchLines == 4
\* Largest sample input a call of the interpreter is given.
MaxInput == 1
\* Largest absolute value typed into the inputs minX, maxX and resolution.
MaxDomain == 1
\* Most lines typed into the textarea of the page.
MaxPageLines == 2
\* Most characters of a string given to parseNumber.
MaxNumberLength == 4
\* Largest absolute longitude and latitude of the view, in steps of 15 degrees.
MaxTurns == 3
\* Largest coordinate of the centre of rotation typed into an offset input,
\* in halves.
MaxOffset == 1
\* Largest absolute zoom step (a step is a factor of 10^0.1).
MaxZoomSteps == 1
\* Most drag gestures started on the canvas.
MaxGestures == 2
\* The largest x of a sample whose lines are drawn
MaxDrawX == 6

-----------------------------------------------------------------------------
(* JavaScript doubles *)

Fin(n)    == [t |-> "fin", n |-> n]
NaN       == [t |-> "nan", n |-> 0]
PInf      == [t |-> "pinf", n |-> 0]
NInf      == [t |-> "ninf", n |-> 0]
MathPI    == [t |-> "pi", n |-> 0]
MathE     == [t |-> "e", n |-> 0]
Untracked == [t |-> "untracked", n |-> 0]
\* A positive double so small that its square underflows to 0 (1e-200, say:
\* Math.pow(1e-200, 2) is 0), and that a sum with a non-zero integer absorbs.
Tiny      == [t |-> "tiny", n |-> 0]

IsFin(d)   == d.t = "fin"
IsNaN(d)   == d.t = "nan"
IsInf(d)   == d.t \in {"pinf", "ninf"}
IsTiny(d)  == d.t = "tiny"
\* The doubles whose value the model computes.
Tracked(d) == d.t \in {"fin", "nan", "pinf", "ninf"}
\* Sign of a tracked double that is not NaN: -1, 0 or 1.
Sign(d)    == IF d.t = "pinf" THEN 1
              ELSE IF d.t = "ninf" THEN -1
              ELSE IF d.n > 0 THEN 1 ELSE IF d.n < 0 THEN -1 ELSE 0

\* -d
fneg(d) == IF d.t = "fin" THEN Fin(0 - d.n)
           ELSE IF d.t = "pinf" THEN NInf
           ELSE IF d.t = "ninf" THEN PInf
           ELSE IF d.t = "nan" THEN NaN
           ELSE Untracked

\* a + b (IEEE-754: NaN absorbs, Infinity + -Infinity is NaN)
fadd(a, b) ==
    IF IsNaN(a) \/ IsNaN(b) THEN NaN
    ELSE IF IsTiny(a) /\ Tracked(b) THEN (IF b = Fin(0) THEN Tiny ELSE b)
    ELSE IF IsTiny(b) /\ Tracked(a) THEN (IF a = Fin(0) THEN Tiny ELSE a)
    ELSE IF ~Tracked(a) \/ ~Tracked(b) THEN Untracked
    ELSE IF IsInf(a) /\ IsInf(b) THEN (IF a = b THEN a ELSE NaN)
    ELSE IF IsInf(a) THEN a
    ELSE IF IsInf(b) THEN b
    ELSE Fin(a.n + b.n)

\* a - b
fsub(a, b) == fadd(a, fneg(b))

\* Tiny * b for a tracked b that is not NaN
TinyTimes(b) == IF b = Fin(0) THEN Fin(0)
                ELSE IF IsInf(b) THEN b
                ELSE Untracked

\* a * b (IEEE-754: NaN absorbs, 0 * Infinity is NaN; the product of two tiny
\* doubles underflows to 0)
fmul(a, b) ==
    IF IsNaN(a) \/ IsNaN(b) THEN NaN
    ELSE IF IsTiny(a) /\ IsTiny(b) THEN Fin(0)
    ELSE IF IsTiny(a) /\ Tracked(b) THEN TinyTimes(b)
    ELSE IF IsTiny(b) /\ Tracked(a) THEN TinyTimes(a)
    ELSE IF ~Tracked(a) \/ ~Tracked(b) THEN Untracked
    ELSE IF IsInf(a) \/ IsInf(b)
         THEN (IF Sign(a) * Sign(b) = 0 THEN NaN
               ELSE IF Sign(a) * Sign(b) > 0 THEN PInf ELSE NInf)
    ELSE Fin(a.n * b.n)

\* The integer square root of n >= 0, or -1 when n is no perfect square.
RECURSIVE ExactRoot(_, _)
ExactRoot(n, k) == IF k * k = n THEN k
                   ELSE IF k * k > n THEN -1
                   ELSE ExactRoot(n, k + 1)

\* Math.pow(d, 0.5) for d = a*a + b*b (never negative)
Sqrt(d) == IF IsNaN(d) THEN NaN
           ELSE IF ~Tracked(d) THEN Untracked
           ELSE IF d.t = "pinf" THEN PInf
           ELSE IF d.t = "ninf" \/ d.n < 0 THEN NaN
           ELSE IF ExactRoot(d.n, 0) >= 0 THEN Fin(ExactRoot(d.n, 0))
           ELSE Untracked

\* Math.log(d)
Log(d) == IF IsNaN(d) THEN NaN
          ELSE IF ~Tracked(d) THEN Untracked
          ELSE IF d.t = "pinf" THEN PInf
          ELSE IF d.t = "ninf" \/ d.n < 0 THEN NaN
          ELSE IF d.n = 0 THEN NInf
          ELSE IF d.n = 1 THEN Fin(0)
          ELSE Untracked

\* Math.exp(d)
Exp(d) == IF IsNaN(d) THEN NaN
          ELSE IF ~Tracked(d) THEN Untracked
          ELSE IF d.t = "pinf" THEN PInf
          ELSE IF d.t = "ninf" THEN Fin(0)
          ELSE IF d.n = 0 THEN Fin(1)
          ELSE Untracked

\* Math.cos(d)
Cos(d) == IF IsNaN(d) \/ IsInf(d) THEN NaN
          ELSE IF ~Tracked(d) THEN Untracked
          ELSE IF d.n = 0 THEN Fin(1)
          ELSE Untracked

\* Math.sin(d)
Sin(d) == IF IsNaN(d) \/ IsInf(d) THEN NaN
          ELSE IF ~Tracked(d) THEN Untracked
          ELSE IF d.n = 0 THEN Fin(0)
          ELSE Untracked

\* Math.atan2(y, x): exact only on the non-negative real axis
Atan2(y, x) == IF IsNaN(y) \/ IsNaN(x) THEN NaN
               ELSE IF ~Tracked(y) \/ ~Tracked(x) THEN Untracked
               ELSE IF IsFin(y) /\ y.n = 0 /\ Sign(x) >= 0 THEN Fin(0)
               ELSE Untracked

-----------------------------------------------------------------------------
(* Values: Complex objects, bare numbers, undefined, and a thrown TypeError *)

\* new Complex(re, im) with re and im already doubles (Number(d) is d)
Complex(re, im) == [tag |-> "Complex", re |-> re, im |-> im]
\* a bare JavaScript number
NumberValue(d)  == [tag |-> "number", re |-> d, im |-> Fin(0)]
\* undefined: what pop() gives on an empty array, and a missing argument
Undefined       == [tag |-> "undefined", re |-> NaN, im |-> NaN]
\* a function object, such as Object.prototype.toString: it has no property
\* re or im
FunctionValue   == [tag |-> "function", re |-> NaN, im |-> NaN]
\* not a value: the call threw "TypeError: cannot read property of undefined"
TypeError       == [tag |-> "TypeError", re |-> NaN, im |-> NaN]

Threw(v) == v.tag = "TypeError"

\* if (num.constructor !== Complex) num = new Complex(num);
\* reading .constructor of undefined throws; Number(f) of a function is NaN
AsComplex(v) == IF v.tag = "undefined" THEN TypeError
                ELSE IF v.tag = "number" THEN Complex(v.re, Fin(0))
                ELSE IF v.tag = "function" THEN Complex(NaN, Fin(0))
                ELSE v

\* Complex.toPolar: reads num.re and num.im without wrapping, so a bare
\* number gives Math.pow(undefined, 2) = NaN and atan2(undefined, ..) = NaN
toPolar(v) ==
    IF v.tag \in {"number", "function"} THEN [r |-> NaN, theta |-> NaN]
    ELSE [r     |-> Sqrt(fadd(fmul(v.re, v.re), fmul(v.im, v.im))),
          theta |-> Atan2(v.im, v.re)]

\* Complex.fromPolar
fromPolar(r, theta) == Complex(fmul(r, Cos(theta)), fmul(r, Sin(theta)))

\* Complex.abs: no wrapping, reading .re of undefined throws
abs(v) == IF v.tag = "undefined" THEN TypeError
          ELSE Complex(toPolar(v).r, Fin(0))

\* Complex.add
add(num1, num2) ==
    IF Threw(AsComplex(num1)) \/ Threw(AsComplex(num2)) THEN TypeError
    ELSE LET a == AsComplex(num1)
             b == AsComplex(num2)
         IN  Complex(fadd(a.re, b.re), fadd(a.im, b.im))

\* Complex.subtract
subtract(num1, num2) ==
    IF Threw(AsComplex(num1)) \/ Threw(AsComplex(num2)) THEN TypeError
    ELSE LET a == AsComplex(num1)
             b == AsComplex(num2)
         IN  Complex(fsub(a.re, b.re), fsub(a.im, b.im))

\* Complex.multiply
multiply(in1, in2) ==
    IF Threw(AsComplex(in1)) \/ Threw(AsComplex(in2)) THEN TypeError
    ELSE LET a == AsComplex(in1)
             b == AsComplex(in2)
             num1 == fmul(a.re, b.re)
             num2 == fmul(a.im, b.re)
             num3 == fmul(a.re, b.im)
             num4 == fmul(a.im, b.im)
         IN  Complex(fsub(num1, num4), fadd(num2, num3))

\* The test of Complex.raise: |base| === 0 and |exponent| !== 0
RaiseZeroCase(a, b) == abs(a).re = Fin(0) /\ abs(b).re # Fin(0)

\* Complex.raise
raise(num1, num2) ==
    IF Threw(AsComplex(num1)) \/ Threw(AsComplex(num2)) THEN TypeError
    ELSE LET a == AsComplex(num1)
             b == AsComplex(num2)
             absB == toPolar(a).r
             argB == toPolar(a).theta
         IN  IF RaiseZeroCase(a, b) THEN Complex(Fin(0), Fin(0))
             ELSE fromPolar(
                    Exp(fsub(fmul(b.re, Log(absB)), fmul(b.im, argB))),
                    fadd(fmul(b.im, Log(absB)), fmul(b.re, argB)))

\* Complex.divide
divide(num1, num2) ==
    IF Threw(AsComplex(num1)) \/ Threw(AsComplex(num2)) THEN TypeError
    ELSE multiply(AsComplex(num1), raise(AsComplex(num2), NumberValue(Fin(-1))))

\* Complex.ln
ln(num1) ==
    IF Threw(AsComplex(num1)) THEN TypeError
    ELSE LET polar == toPolar(AsComplex(num1))
         IN  Complex(Log(polar.r), polar.theta)

-----------------------------------------------------------------------------
(* Strings *)

Whitespace == {" "}
Digits     == {"0", "1", "2", "3", "4", "5", "6", "7", "8", "9"}

DigitValue(c) == CASE c = "0" -> 0 [] c = "1" -> 1 [] c = "2" -> 2 [] c = "3" -> 3
                   [] c = "4" -> 4 [] c = "5" -> 5 [] c = "6" -> 6 [] c = "7" -> 7
                   [] c = "8" -> 8 [] c = "9" -> 9

\* String.prototype.trim
RECURSIVE TrimLeft(_)
TrimLeft(s) == IF s # <<>> /\ Head(s) \in Whitespace THEN TrimLeft(Tail(s)) ELSE s

RECURSIVE TrimRight(_)
TrimRight(s) == IF s # <<>> /\ s[Len(s)] \in Whitespace
                THEN TrimRight(SubSeq(s, 1, Len(s) - 1)) ELSE s

trim(s) == TrimRight(TrimLeft(s))

\* The value of a string of decimal digits.
RECURSIVE DigitsValue(_, _)
DigitsValue(s, acc) == IF s = <<>> THEN acc
                       ELSE DigitsValue(Tail(s), 10 * acc + DigitValue(Head(s)))

AllDigits(s) == s # <<>> /\ \A k \in 1..Len(s) : s[k] \in Digits

\* Number(string): whitespace is trimmed, "" is 0, a signed decimal integer is
\* its value, anything else is NaN (strings over the model's alphabet hold no
\* ".", exponent, hex or "Infinity").
StringToNumber(str) ==
    LET s == trim(str)
    IN  IF s = <<>> THEN Fin(0)
        ELSE IF AllDigits(s) THEN Fin(DigitsValue(s, 0))
        ELSE IF Head(s) = "-" /\ AllDigits(Tail(s)) THEN Fin(0 - DigitsValue(Tail(s), 0))
        ELSE IF Head(s) = "+" /\ AllDigits(Tail(s)) THEN Fin(DigitsValue(Tail(s), 0))
        ELSE NaN

\* parseNumber of the page script: "4" or "3i" to a Complex
parseNumber(str) ==
    IF str = <<>> \/ str[Len(str)] # "i"
    THEN Complex(StringToNumber(str), Fin(0))
    ELSE LET n == IF str = <<"i">> THEN <<"1", "i">> ELSE str
         IN  Complex(Fin(0), StringToNumber(SubSeq(n, 1, Len(n) - 1)))

\* str.replace(/\s/g, ""): the string without its whitespace
RemoveWhitespace(str) == SelectSeq(str, LAMBDA c : c \notin Whitespace)

\* The loop of lines 380-385 of src/script.js: the string cut before every
\* sign that is not its first character. `i` is the (1-based) index looked
\* at, `beginning` the index where the current piece starts.
RECURSIVE SplitAtSigns(_, _, _)
SplitAtSigns(str, beginning, i) ==
    IF i > Len(str) THEN << SubSeq(str, beginning, Len(str)) >>
    ELSE IF str[i] \in {"+", "-"}
    THEN << SubSeq(str, beginning, i - 1) >> \o SplitAtSigns(str, i, i + 1)
    ELSE SplitAtSigns(str, beginning, i + 1)

\* The loop of lines 390-410 of src/script.js: each piece is added to the
\* imaginary part when it ends in i, I, j or J (a piece that is a bare sign
\* or empty before the suffix counts as one), to the real part otherwise.
RECURSIVE AddPieces(_, _)
AddPieces(numbers, out) ==
    IF numbers = <<>> THEN out
    ELSE LET number == Head(numbers)
             strNum == SubSeq(number, 1, Len(number) - 1)
         IN  IF number # <<>> /\ number[Len(number)] \in {"i", "I", "j", "J"}
             THEN IF strNum \in { <<>>, <<"+">>, <<"-">> }
                  THEN IF strNum = <<"-">>
                       THEN AddPieces(Tail(numbers),
                                      Complex(out.re, fadd(out.im, Fin(-1))))
                       ELSE AddPieces(Tail(numbers),
                                      Complex(out.re, fadd(out.im, Fin(1))))
                  ELSE AddPieces(Tail(numbers),
                                 Complex(out.re, fadd(out.im, StringToNumber(strNum))))
             ELSE AddPieces(Tail(numbers),
                            Complex(fadd(out.re, StringToNumber(number)), out.im))

\* parseNumber of src/script.js (lines 372-412): "4 - 3i" to a Complex. (The
\* strings of the model hold no comma, so line 373 changes nothing.)
parseNumberScript(str) ==
    LET text == RemoveWhitespace(str)
    IN  AddPieces(SplitAtSigns(text, 1, 2), Complex(Fin(0), Fin(0)))

-----------------------------------------------------------------------------
(* The variable registry *)

\* An entry of variableList; min, max and step are read by the sliders only.
Variable(name, value) == [name |-> name, type |-> "constant", value |-> value]

\* let variableList = [pi, e]
DefaultVariables == << Variable(<<"p", "i">>, Complex(MathPI, Fin(0))),
                       Variable(<<"e">>, Complex(MathE, Fin(0))) >>

\* getVariableIndex, 0-based as in the source: the first index whose name is
\* `name`, -1 when there is none
RECURSIVE FirstIndexFrom(_, _, _)
FirstIndexFrom(list, name, i) ==
    IF i > Len(list) THEN -1
    ELSE IF list[i].name = name THEN i - 1
    ELSE FirstIndexFrom(list, name, i + 1)

\* A lookup that returns the last index whose name is `name`.
getVariableIndexLast(list, name) ==
    IF \A i \in 1..Len(list) : list[i].name # name THEN -1
    ELSE (CHOOSE i \in 1..Len(list) :
            /\ list[i].name = name
            /\ \A j \in (i + 1)..Len(list) : list[j].name # name) - 1

getVariableIndex(list, name) == FirstIndexFrom(list, name, 1)

-----------------------------------------------------------------------------
(* The interpreter: userFunction *)

\* let operations: symbol -> number of arguments. The model holds the
\* operations whose code is in src/script.js.
OperationSymbols == { <<"+">>, <<"-">>, <<"*">>, <<"/">>, <<"^">>,
                      <<"l", "n">>, <<"a", "b", "s">> }

OperationArgs(sym) == IF sym \in { <<"l", "n">>, <<"a", "b", "s">> } THEN 1 ELSE 2

\* operations.hasOwnProperty(line)
IsOperation(line) == line \in OperationSymbols

\* values[k] of a JavaScript array, 0-based: undefined past its end
ArgumentAt(values, k) == IF k + 1 <= Len(values) THEN values[k + 1] ELSE Undefined

\* operation.function.apply(this, values)
ApplyOperation(sym, values) ==
    LET v1 == ArgumentAt(values, 0)
        v2 == ArgumentAt(values, 1)
    IN  CASE sym = <<"+">> -> add(v1, v2)
          [] sym = <<"-">> -> subtract(v1, v2)
          [] sym = <<"*">> -> multiply(v1, v2)
          [] sym = <<"/">> -> divide(v1, v2)
          [] sym = <<"^">> -> raise(v1, v2)
          [] sym = <<"l", "n">> -> ln(v1)
          [] sym = <<"a", "b", "s">> -> abs(v1)

\* functionStack.slice(functionStack.length - operation.args): a negative
\* start counts from the end and stops at the first element
SliceFrom(stack, start) ==
    LET from == IF start < 0 THEN (IF Len(stack) + start < 0 THEN 0 ELSE Len(stack) + start)
                ELSE start
    IN  SubSeq(stack, from + 1, Len(stack))

\* {}: an object with no own property
EmptyObject == [n \in {} |-> Undefined]

\* The calculated variables of the previous call, kept.
KeptCalculatedVars == calculatedVars

\* let calculatedVars = {}, run at the start of every call
NewCalculatedVars == EmptyObject

\* calculatedVars[key] = value
SetProperty(obj, key, value) ==
    [n \in DOMAIN obj \cup {key} |-> IF n = key THEN value ELSE obj[n]]

\* Names every object inherits from Object.prototype
ConstructorName == <<"c", "o", "n", "s", "t", "r", "u", "c", "t", "o", "r">>
ToStringName == <<"t", "o", "S", "t", "r", "i", "n", "g">>
ObjectPrototypeNames == { ConstructorName, ToStringName }

\* line in calculatedVars: the in operator finds own and inherited properties
HasProperty(obj, key) == key \in DOMAIN obj \/ key \in ObjectPrototypeNames

\* calculatedVars[key]: the own property, else the inherited function
GetProperty(obj, key) ==
    IF key \in DOMAIN obj THEN obj[key]
    ELSE IF key \in ObjectPrototypeNames THEN FunctionValue
    ELSE Undefined

\* ExpressionParser.parseExpression(line): the tokens of the line in Reverse
\* Polish order, or the ParseError it throws. A line of the model holds one
\* word: a number or an identifier is its own token sequence, and an
\* operator with no operand is a parse error.
parseExpression(line) ==
    IF IsOperation(trim(line)) THEN [tokens |-> <<>>, threw |-> "ParseError"]
    ELSE [tokens |-> << line >>, threw |-> "no"]

\* The part of userFunction that builds functionList from functionText
\* (a sequence of lines): blank lines dropped, lines starting with = or #
\* kept whole, the other lines parsed; a throw of the parser ends the build
\* (and the call).
RECURSIVE BuildFunctionList(_, _)
BuildFunctionList(lines, acc) ==
    IF lines = <<>> THEN [tokens |-> acc, threw |-> "no"]
    ELSE LET line == Head(lines)
         IN  IF trim(line) = <<>> THEN BuildFunctionList(Tail(lines), acc)
             ELSE IF line[1] \in {"=", "#"}
                  THEN BuildFunctionList(Tail(lines), Append(acc, line))
                  ELSE IF parseExpression(line).threw # "no"
                  THEN [tokens |-> acc, threw |-> parseExpression(line).threw]
                  ELSE BuildFunctionList(Tail(lines),
                                         acc \o parseExpression(line).tokens)

\* RunOperation as a lenient interpreter would have it: a missing operand
\* reads as 0 and the stack is never shortened below empty.
RunOperationPadded(line, stack) ==
    LET args   == OperationArgs(line)
        zero   == Complex(Fin(0), Fin(0))
        padded == IF Len(stack) >= args THEN stack
                  ELSE [k \in 1..(args - Len(stack)) |-> zero] \o stack
        value  == ApplyOperation(line, SliceFrom(padded, Len(padded) - args))
    IN  IF Threw(value) THEN [stack |-> stack, threw |-> "TypeError"]
        ELSE [stack |-> Append(SubSeq(padded, 1, Len(padded) - args), value),
              threw |-> "no"]

\* The operation branch of userFunction (the line is an operation): slice the
\* arguments off the stack, apply, shorten the stack, push the result. A
\* throw inside the operation aborts the call; so does a negative array
\* length ("RangeError: Invalid array length").
RunOperation(line, stack) ==
    LET args   == OperationArgs(line)
        values == SliceFrom(stack, Len(stack) - args)
        value  == ApplyOperation(line, values)
    IN  IF Threw(value) THEN [stack |-> stack, threw |-> "TypeError"]
        ELSE IF Len(stack) - args < 0 THEN [stack |-> stack, threw |-> "RangeError"]
        ELSE [stack |-> Append(SubSeq(stack, 1, Len(stack) - args), value),
              threw |-> "no"]

\* ResolveName with the calculated variables consulted before the registry.
ResolveNameCalculatedFirst(line, list, cvars) ==
    IF HasProperty(cvars, line) THEN GetProperty(cvars, line)
    ELSE IF getVariableIndex(list, line) # -1
    THEN list[getVariableIndex(list, line) + 1].value
    ELSE parseNumber(line)

\* The last three branches of userFunction (the line is no assignment and no
\* operation): the value pushed for the line is the registry's when
\* getVariableIndex finds the name, else the calculated variable's when the
\* name is in calculatedVars, else parseNumber(line).
ResolveName(line, list, cvars) ==
    IF getVariableIndex(list, line) # -1
    THEN list[getVariableIndex(list, line) + 1].value
    ELSE IF HasProperty(cvars, line) THEN GetProperty(cvars, line)
    ELSE parseNumber(line)

\* A loop turn whose assignment line writes the registry entry of its name,
\* when there is one, as well as the calculated variable.
RegistryAssigned(token, list, stack) ==
    LET line  == trim(token)
        index == IF line = <<>> THEN -1 ELSE getVariableIndex(list, trim(Tail(line)))
    IN  IF line # <<>> /\ line[1] = "=" /\ index # -1 /\ stack # <<>>
        THEN [list EXCEPT ![index + 1].value = stack[Len(stack)]]
        ELSE list

\* variableList after one turn of the loop of userFunction: the loop body
\* assigns functionStack and calculatedVars only (line 649 writes
\* calculatedVars[name]; lines 660 and 654-655 read variableList and hand its
\* values to operations that build new objects), so the list is as it was.
RegistryAfterLine(token, list, stack) == list

\* An assignment that binds the top of the stack and leaves it there.
AssignPeek(line, stack, cvars) ==
    [stack |-> stack,
     cvars |-> SetProperty(cvars, trim(Tail(line)),
                           IF stack = <<>> THEN Undefined ELSE stack[Len(stack)]),
     threw |-> "no"]

\* The assignment branch (lines 647-649):
\* calculatedVars[line.substring(1).trim()] = functionStack.pop()
Assign(line, stack, cvars) ==
    [stack |-> IF stack = <<>> THEN <<>> ELSE SubSeq(stack, 1, Len(stack) - 1),
     cvars |-> SetProperty(cvars, trim(Tail(line)),
                           IF stack = <<>> THEN Undefined ELSE stack[Len(stack)]),
     threw |-> "no"]

\* A loop turn that skips empty lines only: a line starting with # is run as
\* the text after the #.
ExecuteLineRunsComments(token, arg, list, stack, cvars) ==
    LET whole == trim(token)
        line  == IF whole # <<>> /\ whole[1] = "#" THEN trim(Tail(whole)) ELSE whole
        same  == [stack |-> stack, cvars |-> cvars, threw |-> "no"]
    IN  IF line = <<"x">> THEN [same EXCEPT !.stack = Append(stack, arg)]
        ELSE IF line = <<>> THEN same
        ELSE IF line[1] = "=" THEN Assign(line, stack, cvars)
        ELSE IF IsOperation(line)
        THEN [cvars |-> cvars] @@ RunOperation(line, stack)
        ELSE [same EXCEPT !.stack = Append(stack, ResolveName(line, list, cvars))]

\* A loop turn that looks the line up in the registry before anything else.
ExecuteLineRegistryFirst(token, arg, list, stack, cvars) ==
    LET line == trim(token)
        same == [stack |-> stack, cvars |-> cvars, threw |-> "no"]
    IN  IF line = <<>> \/ line[1] = "#" THEN same
        ELSE IF getVariableIndex(list, line) # -1
        THEN [same EXCEPT !.stack =
                 Append(stack, list[getVariableIndex(list, line) + 1].value)]
        ELSE IF line = <<"x">> THEN [same EXCEPT !.stack = Append(stack, arg)]
        ELSE IF line[1] = "=" THEN Assign(line, stack, cvars)
        ELSE IF IsOperation(line)
        THEN [cvars |-> cvars] @@ RunOperation(line, stack)
        ELSE [same EXCEPT !.stack = Append(stack, ResolveName(line, list, cvars))]

\* One turn of the loop of userFunction on the token `token`: the stack, the
\* calculated variables and what the turn threw ("no" when nothing).
ExecuteLine(token, arg, list, stack, cvars) ==
    LET line == trim(token)
        same == [stack |-> stack, cvars |-> cvars, threw |-> "no"]
    IN  IF line = <<"x">> THEN [same EXCEPT !.stack = Append(stack, arg)]
        ELSE IF line = <<>> \/ line[1] = "#" THEN same
        ELSE IF line[1] = "=" THEN Assign(line, stack, cvars)
        ELSE IF IsOperation(line)
        THEN [cvars |-> cvars] @@ RunOperation(line, stack)
        ELSE [same EXCEPT !.stack = Append(stack, ResolveName(line, list, cvars))]

\* A return of the value on top of the stack only.
ReturnTop(stack) == IF stack = <<>> THEN <<>> ELSE << stack[Len(stack)] >>

\* return functionStack (line 672): the whole array, oldest value first
ReturnValue(stack) == stack

\* userFunction from its loop on: the tokens from index i run in order on the
\* stack and the calculated variables; the result is the final stack, or the
\* throw that ended the call. (turn \in {..} names the one outcome of the
\* turn.)
RECURSIVE RunFrom(_, _, _, _, _, _)
RunFrom(tokens, i, arg, list, stack, cvars) ==
    IF i > Len(tokens) THEN [stack |-> ReturnValue(stack), threw |-> "no"]
    ELSE CHOOSE end \in
            { IF turn.threw # "no" THEN [stack |-> turn.stack, threw |-> turn.threw]
              ELSE RunFrom(tokens, i + 1, arg, list, turn.stack, turn.cvars) :
                turn \in { ExecuteLine(tokens[i], arg, list, stack, cvars) } } : TRUE

\* userFunction(num) as one call, reading the globals functionText and
\* variableList.
userFunction(arg, text, list) ==
    CHOOSE end \in
        { IF built.threw # "no" THEN [stack |-> <<>>, threw |-> built.threw]
          ELSE RunFrom(built.tokens, 1, arg, list, <<>>, NewCalculatedVars) :
            built \in { BuildFunctionList(text, <<>>) } } : TRUE

-----------------------------------------------------------------------------
(* Calls of userFunction, one token per step *)

\* The tokens a function list is made of; # x is a comment line, which line
\* 622 pushes whole.
Tokens == { <<"x">>, <<"a">>, <<"=", "a">>, <<"+">>, <<"a", "b", "s">>, <<"2">>,
            <<"#", " ", "x">> }

\* The function lists lines 616-628 can build: the lines starting with = or #
\* are pushed whole and the other tokens are what ExpressionParser.parseExpression
\* returned, which can be any sequence of tokens.
Programs == UNION { [1..k -> Tokens] : k \in 0..MaxLines }

\* The registry as loaded, and with two user constants of the same name
\* added, a = 7 and after it a = 9.
Registries == { DefaultVariables,
                DefaultVariables \o << Variable(<<"a">>, Complex(Fin(7), Fin(0))),
                                       Variable(<<"a">>, Complex(Fin(9), Fin(0))) >> }

\* let tracingPoint = 0: a number, which drawLabel passes as it is
TracingPoint == NumberValue(Fin(0))

\* new Complex(x, 0) for the sample inputs x
Arguments == { Complex(Fin(n), Fin(0)) : n \in 0..MaxInput }

PageIdle ==
    /\ textarea = <<>>
    /\ minX = 0 /\ maxX = 0 /\ resolution = 1
    /\ resultList = <<>>
    /\ updateRequested = FALSE
    /\ pendingFrames = 0
    /\ batchOutcome = "ok"
    /\ frameOutcome = "ok"
    /\ batchStep = [num |-> 1, den |-> 1]
    /\ drawStep = [num |-> 1, den |-> 1]

CxIdle ==
    /\ cxOp = "none"
    /\ cxA = Complex(Fin(0), Fin(0))
    /\ cxB = Complex(Fin(0), Fin(0))
    /\ cxOut = Undefined

-----------------------------------------------------------------------------
(* The view: class View *)

\* Conventions of the view model. Angles are whole degrees. A coordinate of
\* the centre of rotation is held in halves (3 is 1.5). view.zoom is held as
\* a double: Fin(z) for the zoom 5 * 10^(z/10), or NaN. The value of an
\* offset input is Fin(h) for the number h halves that it shows, or Empty
\* for "" (a finite double is read back from its string as it was).

\* x mod 360 for any integer x, in 0..359
Mod360(x) == x % 360

\* Matrix.multiplication(latMatrix, longMatrix) of updateMatrix: the entries
\* are products and sums of cos and sin of the two angles, which have period
\* 360 degrees; two pairs of angles give the same matrix exactly when they
\* agree modulo 360, so the matrix is held as that pair.
RotationMatrix(longitude, latitude) ==
    [lo |-> Mod360(longitude), la |-> Mod360(latitude)]

\* View.updateMatrix
updateMatrix(v) == [v EXCEPT !.matrix = RotationMatrix(v.longitude, v.latitude)]

\* new View(longitude, latitude, offset, zoom, projection)
NewView(longitude, latitude, offset, zoom, projection) ==
    updateMatrix([longitude |-> longitude, latitude |-> latitude, offset |-> offset,
                  zoom |-> zoom, projection |-> projection,
                  matrix |-> RotationMatrix(0, 0)])

\* A setter that stores the angle and leaves the matrix as it was.
SetLongitudeStale(v, value) == [v EXCEPT !.longitude = value]

\* set longitude(value)
SetLongitude(v, value) == updateMatrix([v EXCEPT !.longitude = value])

\* set latitude(value)
SetLatitude(v, value) == updateMatrix([v EXCEPT !.latitude = value])

\* Math.round(angle / 45) * 45 for a whole number of degrees (no tie occurs)
RoundTo45(angle) == ((2 * angle + 45) \div 90) * 45

\* View.snapAngle, but for its call of updateCanvas
snapAngle(v) ==
    updateMatrix([v EXCEPT !.latitude = RoundTo45(v.latitude),
                           !.longitude = RoundTo45(v.longitude)])

\* Math.round of a number held in halves, in halves: a tie goes up
RoundHalves(h) == 2 * ((h + 1) \div 2)

\* The value "" of a number input that shows nothing.
Empty == [t |-> "empty", n |-> 0]

\* Number(input.value): "" reads as 0
InputNumber(value) == IF value = Empty THEN 0 ELSE value.n

\* input.value = number
InputValue(number) == Fin(number)

\* [xOffset.value, yOffset.value, zOffset.value].map(x => Number(x))
InputNumbers(inputs) == [k \in 1..3 |-> InputNumber(inputs[k])]

\* View.snapPosition, but for its call of updateCanvas: the view and the
\* values of the three offset inputs
snapPosition(v, inputs) ==
    LET rounded == [k \in 1..3 |-> RoundHalves(v.offset[k])]
    IN  [view |-> [v EXCEPT !.offset = rounded],
         inputs |-> [k \in 1..3 |-> InputValue(rounded[k])]]

\* updateView, but for its call of updateCanvas
updateView(v, inputs) == [v EXCEPT !.offset = InputNumbers(inputs)]

\* The offset inputs of index.html: value="0"
InitialOffsetInputs == << Fin(0), Fin(0), Fin(0) >>

\* var view = new View(40, 30, [offsets of the inputs], 5)
InitialView == NewView(40, 30, InputNumbers(InitialOffsetInputs), Fin(0), "perspective")

ViewIdle ==
    /\ view = InitialView
    /\ offsetInputs = InitialOffsetInputs
    /\ listeners = <<>>
    /\ gestures = <<>>
    /\ lastEvent = [type |-> "load", threw |-> FALSE]

ParseIdle ==
    /\ numberText = <<>>
    /\ parsed = Undefined
    /\ parsedScript = Undefined

\* No line drawn yet
NoStroke == [from |-> <<>>, to |-> <<>>]

\* A new 2d context: lineWidth 1, strokeStyle "#000000"
NewContext == [lineWidth |-> 2, strokeStyle |-> "#000000"]

DrawIdle ==
    /\ ctx = NewContext
    /\ stroked = NoStroke

AuxIdle == ParseIdle /\ ViewIdle /\ DrawIdle

CallIdle ==
    /\ num = Undefined
    /\ functionList = <<>>
    /\ pc = 0
    /\ functionStack = <<>>
    /\ calculatedVars = EmptyObject
    /\ status = "idle"
    /\ returned = {}

\* No call has been made yet. functionList holds the list every call will
\* build: the function text is not changed by a call, so lines 616-628 build
\* the same list each time.
EvalInit ==
    /\ functionText = <<>>
    /\ variableList \in Registries
    /\ functionList \in Programs
    /\ num = Undefined
    /\ pc = 0
    /\ functionStack = <<>>
    /\ calculatedVars = EmptyObject
    /\ status = "idle"
    /\ returned = {}
    /\ PageIdle
    /\ CxIdle
    /\ AuxIdle

\* userFunction(arg) is entered: its locals are created (lines 610-633).
\* updateFunctionValues calls it with new Complex(x, 0) (line 526) and
\* drawLabel with tracingPoint (line 419).
EvalCall(arg) ==
    /\ status # "running"
    /\ num' = arg
    /\ calculatedVars' = NewCalculatedVars
    /\ functionStack' = <<>>
    /\ pc' = 1
    /\ status' = "running"
    /\ UNCHANGED <<functionList, returned, pageVars, cxVars, auxVars>>

\* One turn of the for loop (lines 636-671); a throw ends the call.
EvalStep ==
    /\ status = "running"
    /\ pc <= Len(functionList)
    /\ \E turn \in { ExecuteLine(functionList[pc], num, variableList,
                                 functionStack, calculatedVars) } :
           IF turn.threw # "no"
           THEN /\ status' = turn.threw
                /\ returned' = returned \cup
                      {[arg |-> num, outcome |-> turn.threw, result |-> <<>>]}
                /\ UNCHANGED <<pc, functionStack, calculatedVars>>
           ELSE /\ functionStack' = turn.stack
                /\ calculatedVars' = turn.cvars
                /\ pc' = pc + 1
                /\ UNCHANGED <<status, returned>>
    /\ variableList' = RegistryAfterLine(functionList[pc], variableList, functionStack)
    /\ UNCHANGED <<num, functionList, displayVars, cxVars, auxVars>>

\* return functionStack (line 672)
EvalReturn ==
    /\ status = "running"
    /\ pc > Len(functionList)
    /\ status' = "returned"
    /\ returned' = returned \cup
          {[arg |-> num, outcome |-> "returned", result |-> ReturnValue(functionStack)]}
    /\ UNCHANGED <<num, functionList, pc, functionStack, calculatedVars,
                   pageVars, cxVars, auxVars>>

EvalNext ==
    \/ \E arg \in Arguments : EvalCall(arg)
    \/ EvalCall(TracingPoint)
    \/ EvalStep
    \/ EvalReturn

EvalSpec == EvalInit /\ [][EvalNext]_vars

\* The tokens of the calls that test the dispatch of a line: x, an operation
\* and a name every object inherits, each with its assignment line.
DispatchTokens == { <<"x">>, <<"=", "x">>, <<"a", "b", "s">>, <<"=", "a", "b", "s">>,
                    ConstructorName, <<"=">> \o ConstructorName }

DispatchPrograms == UNION { [1..k -> DispatchTokens] : k \in 0..MaxDispatchLines }

\* The registry as loaded, and with user constants named x and abs added
\* (updateVariableList takes any name).
DispatchRegistries ==
    { DefaultVariables,
      DefaultVariables \o << Variable(<<"x">>, Complex(Fin(7), Fin(0))),
                             Variable(<<"a", "b", "s">>, Complex(Fin(9), Fin(0))) >> }

DispatchInit ==
    /\ functionText = <<>>
    /\ variableList \in DispatchRegistries
    /\ functionList \in DispatchPrograms
    /\ num = Undefined
    /\ pc = 0
    /\ functionStack = <<>>
    /\ calculatedVars = EmptyObject
    /\ status = "idle"
    /\ returned = {}
    /\ PageIdle
    /\ CxIdle
    /\ AuxIdle

\* The calls updateFunctionValues makes (line 526)
DispatchNext ==
    \/ \E arg \in Arguments : EvalCall(arg)
    \/ EvalStep
    \/ EvalReturn

DispatchSpec == DispatchInit /\ [][DispatchNext]_vars

-----------------------------------------------------------------------------
(* Calls of the Complex operations *)

OperandDoubles == { Fin(n) : n \in (0 - MaxOperand)..MaxOperand } \cup {NaN, PInf, Tiny}

Operands == { Complex(re, im) : re \in OperandDoubles, im \in OperandDoubles }

CxInit ==
    /\ cxOp = "none"
    /\ cxA \in Operands
    /\ cxB \in Operands
    /\ cxOut = Undefined
    /\ functionText = <<>>
    /\ variableList = DefaultVariables
    /\ CallIdle
    /\ PageIdle
    /\ AuxIdle

CxCall(op, out) ==
    /\ cxOp' = op
    /\ cxOut' = out
    /\ UNCHANGED <<cxA, cxB, pageVars, callVars, auxVars>>

CallAdd      == CxCall("add", add(cxA, cxB))
CallSubtract == CxCall("subtract", subtract(cxA, cxB))
CallMultiply == CxCall("multiply", multiply(cxA, cxB))
CallDivide   == CxCall("divide", divide(cxA, cxB))
CallRaise    == CxCall("raise", raise(cxA, cxB))
CallLn       == CxCall("ln", ln(cxA))
CallAbs      == CxCall("abs", abs(cxA))

CxNext ==
    \/ CallAdd
    \/ CallSubtract
    \/ CallMultiply
    \/ CallDivide
    \/ CallRaise
    \/ CallLn
    \/ CallAbs

ComplexSpec == CxInit /\ [][CxNext]_vars

-----------------------------------------------------------------------------
(* Calls of parseNumber *)

NumberCharacters == {"4", "3", "-", "i"}

NumberTexts == UNION { [1..k -> NumberCharacters] : k \in 0..MaxNumberLength }

ParseInit ==
    /\ numberText \in NumberTexts
    /\ parsed = Undefined
    /\ parsedScript = Undefined
    /\ functionText = <<>>
    /\ variableList = DefaultVariables
    /\ CallIdle
    /\ PageIdle
    /\ CxIdle
    /\ ViewIdle
    /\ DrawIdle

\* parseNumber(numberText) of the page script (part_000, line 668)
CallParseNumber ==
    /\ parsed = Undefined
    /\ parsed' = parseNumber(numberText)
    /\ UNCHANGED <<numberText, parsedScript, pageVars, callVars, cxVars, viewVars, drawVars>>

\* parseNumber(numberText) of src/script.js (line 456)
CallParseNumberScript ==
    /\ parsedScript = Undefined
    /\ parsedScript' = parseNumberScript(numberText)
    /\ UNCHANGED <<numberText, parsed, pageVars, callVars, cxVars, viewVars, drawVars>>

ParseNext ==
    \/ CallParseNumber
    \/ CallParseNumberScript

ParseSpec == ParseInit /\ [][ParseNext]_vars

-----------------------------------------------------------------------------
(* The page: the function text, the domain inputs, the batch and the frames *)

\* A step is the rational num/den; the inputs of the model hold integers.
Step(n) == [num |-> n, den |-> 1]

\* 0.05 = 1/20: the resolution updateCanvas uses when the input holds 0
DefaultResolutionDenominator == 20

Abs(n) == IF n < 0 THEN 0 - n ELSE n
Min(a, b) == IF a < b THEN a ELSE b
Max(a, b) == IF a > b THEN a ELSE b

\* i <= (end - begin) / step in doubles: a division by 0 gives Infinity for a
\* positive numerator, NaN for 0 and -Infinity for a negative one, and only
\* i <= Infinity is true.
LoopContinues(i, begin, end, step) ==
    IF step.num = 0 THEN end - begin > 0
    ELSE i * step.num <= (end - begin) * step.den

\* The step of updateFunctionValues: Math.abs(resolution)
BatchStep(res) == Step(Abs(res))

\* The resolution of updateCanvas: Math.abs(resolution), 0.05 when that is 0
DrawStep(res) == IF Abs(res) = 0 THEN [num |-> 1, den |-> DefaultResolutionDenominator]
                 ELSE Step(Abs(res))

\* The begin and end of updateFunctionValues: the inputs as they are
BatchDomain(mn, mx) == [begin |-> mn, end |-> mx]

\* The begin and end updateCanvas gives drawFunction
DrawDomain(mn, mx) == [begin |-> Min(mn, mx), end |-> Max(mn, mx)]

\* The most samples a batch of the model takes when its loop ends: a loop
\* still running after them never ends.
SampleLimit == 2 * MaxDomain + 2

\* The loop of updateFunctionValues from index i, the results so far in acc:
\* the final resultList and how the batch ended ("ok", the error a call of
\* func threw, or "hung" for a loop that never ends).
RECURSIVE SampleFrom(_, _, _, _, _, _)
SampleFrom(i, acc, dom, step, text, list) ==
    IF ~LoopContinues(i, dom.begin, dom.end, step) THEN [list |-> acc, outcome |-> "ok"]
    ELSE IF i >= SampleLimit THEN [list |-> acc, outcome |-> "hung"]
    ELSE LET x == i * step.num + dom.begin
         IN  CHOOSE end \in
                { IF result.threw # "no" THEN [list |-> acc, outcome |-> result.threw]
                  ELSE SampleFrom(i + 1, Append(acc, result.stack), dom, step, text, list) :
                    result \in { userFunction(Complex(Fin(x), Fin(0)), text, list) } } : TRUE

\* updateFunctionValues(userFunction)
updateFunctionValues(text, list, mn, mx, res) ==
    SampleFrom(0, <<>>, BatchDomain(mn, mx), BatchStep(res), text, list)

\* array[k] of a JavaScript array of result stacks, 0-based
Defined(array, k) == k + 1 <= Len(array)

\* drawFunction reads resultList[0] and resultList[i] for every i >= 1 with
\* i <= (end - begin) / step, the length of each, and .re and .im of each of
\* its values and of the value at the same place of the entry before: it
\* throws a TypeError when one of them is undefined.
DrawFunctionThrows(dom, step, results) ==
    LET last == CHOOSE n \in 0..((dom.end - dom.begin) * step.den) :
                    /\ LoopContinues(n, dom.begin, dom.end, step) \/ n = 0
                    /\ ~LoopContinues(n + 1, dom.begin, dom.end, step)
    IN  \/ \E i \in 0..last : ~Defined(results, i)
        \/ \E i \in 0..last : \E j \in 1..Len(results[i + 1]) :
              results[i + 1][j].tag = "undefined"
        \/ \E i \in 1..last : Len(results[i + 1]) > Len(results[i])

\* drawLabel: when functionText is not empty it calls userFunction on the
\* tracing point and reads .constructor of every result
DrawLabelThrows(text, list) ==
    /\ text # <<>>
    /\ \E result \in { userFunction(TracingPoint, text, list) } :
           \/ result.threw # "no"
           \/ \E j \in 1..Len(result.stack) : result.stack[j].tag = "undefined"

\* The error a frame ends with when its drawing throws: the TypeError of
\* drawFunction, else what userFunction threw in drawLabel, else the TypeError
\* of drawLabel reading an undefined result.
FrameError(dom, step, results, text, list) ==
    IF DrawFunctionThrows(dom, step, results) THEN "TypeError"
    ELSE IF userFunction(TracingPoint, text, list).threw # "no"
    THEN userFunction(TracingPoint, text, list).threw
    ELSE "TypeError"

\* The lines typed into the textarea.
PageTokens == { <<"x">>, <<"+">> }
PageTexts  == UNION { [1..k -> PageTokens] : k \in 0..MaxPageLines }
DomainValues == (0 - MaxDomain)..MaxDomain

\* The page with the domain set to [-1, 1] at resolution 1, no function text,
\* and the frame of that update drawn.
Init ==
    /\ textarea = <<>>
    /\ functionText = <<>>
    /\ variableList = DefaultVariables
    /\ minX = -1 /\ maxX = 1 /\ resolution = 1
    /\ resultList = updateFunctionValues(<<>>, DefaultVariables, -1, 1, 1).list
    /\ updateRequested = FALSE
    /\ pendingFrames = 0
    /\ batchOutcome = "ok"
    /\ frameOutcome = "ok"
    /\ batchStep = Step(1)
    /\ drawStep = Step(1)
    /\ CallIdle
    /\ CxIdle
    /\ AuxIdle

\* updateCanvas: ask for one frame unless one is asked for already
updateCanvas ==
    IF updateRequested THEN UNCHANGED <<updateRequested, pendingFrames>>
    ELSE /\ updateRequested' = TRUE
         /\ pendingFrames' = pendingFrames + 1

\* updateFunction with the inputs holding mn, mx and res: functionText is
\* read from the textarea, the batch runs, and updateCanvas follows unless the
\* batch threw or never ended.
updateFunction(mn, mx, res) ==
    \E batch \in { updateFunctionValues(textarea, variableList, mn, mx, res) } :
        /\ functionText' = textarea
        /\ resultList' = batch.list
        /\ batchStep' = BatchStep(res)
        /\ batchOutcome' = batch.outcome
        /\ IF batch.outcome = "ok" THEN updateCanvas
           ELSE UNCHANGED <<updateRequested, pendingFrames>>

\* The page runs nothing more once a batch never ends.
Responsive == batchOutcome # "hung"

\* The user edits the textarea.
EditTextarea(text) ==
    /\ Responsive
    /\ textarea' = text
    /\ UNCHANGED <<functionText, variableList, minX, maxX, resolution, resultList,
                   updateRequested, pendingFrames, batchOutcome, frameOutcome, batchStep, drawStep>>
    /\ UNCHANGED <<callVars, cxVars, auxVars>>

\* The user clicks "Set function".
SetFunction ==
    /\ Responsive
    /\ updateFunction(minX, maxX, resolution)
    /\ UNCHANGED <<textarea, variableList, minX, maxX, resolution, frameOutcome, drawStep>>
    /\ UNCHANGED <<callVars, cxVars, auxVars>>

\* The user changes the input minX (onchange="updateFunction()").
ChangeMinX(v) ==
    /\ Responsive
    /\ v # minX
    /\ minX' = v
    /\ updateFunction(v, maxX, resolution)
    /\ UNCHANGED <<textarea, variableList, maxX, resolution, frameOutcome, drawStep>>
    /\ UNCHANGED <<callVars, cxVars, auxVars>>

\* The user changes the input maxX.
ChangeMaxX(v) ==
    /\ Responsive
    /\ v # maxX
    /\ maxX' = v
    /\ updateFunction(minX, v, resolution)
    /\ UNCHANGED <<textarea, variableList, minX, resolution, frameOutcome, drawStep>>
    /\ UNCHANGED <<callVars, cxVars, auxVars>>

\* The user changes the input resolution.
ChangeResolution(v) ==
    /\ Responsive
    /\ v # resolution
    /\ resolution' = v
    /\ updateFunction(minX, maxX, v)
    /\ UNCHANGED <<textarea, variableList, minX, maxX, frameOutcome, drawStep>>
    /\ UNCHANGED <<callVars, cxVars, auxVars>>

\* The callback of requestAnimationFrame runs: it draws the function and the
\* label and resets updateRequested, unless the drawing throws.
AnimationFrame ==
    /\ Responsive
    /\ pendingFrames > 0
    /\ pendingFrames' = pendingFrames - 1
    /\ drawStep' = DrawStep(resolution)
    /\ IF \/ DrawFunctionThrows(DrawDomain(minX, maxX), DrawStep(resolution), resultList)
          \/ DrawLabelThrows(functionText, variableList)
       THEN /\ frameOutcome' = FrameError(DrawDomain(minX, maxX), DrawStep(resolution),
                                           resultList, functionText, variableList)
            /\ UNCHANGED updateRequested
       ELSE /\ frameOutcome' = "ok"
            /\ updateRequested' = FALSE
    /\ UNCHANGED <<textarea, functionText, variableList, minX, maxX, resolution,
                   resultList, batchOutcome, batchStep>>
    /\ UNCHANGED <<callVars, cxVars, auxVars>>

Next ==
    \/ \E text \in PageTexts : EditTextarea(text)
    \/ SetFunction
    \/ \E v \in DomainValues : ChangeMinX(v)
    \/ \E v \in DomainValues : ChangeMaxX(v)
    \/ \E v \in DomainValues : ChangeResolution(v)
    \/ AnimationFrame

Spec == Init /\ [][Next]_vars

-----------------------------------------------------------------------------
(* The view's handlers and the gestures on the canvas *)

\* The angles the model lets a relative change reach, and the angles the
\* numpad keys set.
AngleBound == 15 * MaxTurns
Angles == ((0 - AngleBound)..AngleBound) \cup {90, 180}

\* view.zoom * Math.pow(10, k / 10): k zoom steps more (NaN stays NaN)
ZoomBy(zoom, k) == IF IsFin(zoom) THEN Fin(zoom.n + k) ELSE NaN

\* The state a handler works on: the view, the values of the offset inputs,
\* the listeners on mainCanvas, the closures of the gestures, whether
\* updateCanvas was called and whether a listener threw.
World == [view |-> view, inputs |-> offsetInputs, listeners |-> listeners,
          gestures |-> gestures, updated |-> FALSE, threw |-> FALSE]

\* A mouse event at offsetX = x, offsetY = y, and a touch event with n touch
\* points of which the first is at pageX = x, pageY = y.
MouseEvent(type, x, y) == [type |-> type, mouse |-> TRUE, x |-> x, y |-> y, n |-> 0]
TouchEvent(type, n, x, y) == [type |-> type, mouse |-> FALSE, x |-> x, y |-> y, n |-> n]

\* if (event.offsetX): a mouse event whose offsetX is not 0; a touch event
\* has no offsetX
HasOffsetX(ev) == ev.mouse /\ ev.x # 0

Listener(type, fn, gesture) == [type |-> type, fn |-> fn, gesture |-> gesture]

\* The addEventListener calls of a gesture, in their order.
AddGesture(w, closure, fns) ==
    LET id == Len(w.gestures) + 1
    IN  [w EXCEPT !.gestures = Append(w.gestures, closure),
                  !.listeners = w.listeners \o
                                [k \in 1..Len(fns) |-> Listener(fns[k][1], fns[k][2], id)]]

\* rotateGraph(event): the closure reads the pointer and the angles, and five
\* listeners are added. A mouse event with offsetX = 0 takes the touch branch
\* and throws on event.touches[0].
rotateGraph(ev, w) ==
    IF ~HasOffsetX(ev) /\ ev.n < 1 THEN [w EXCEPT !.threw = TRUE]
    ELSE AddGesture(w,
            [kind |-> "rotateGraph", originalX |-> ev.x, originalY |-> ev.y,
             originalLongitude |-> w.view.longitude,
             originalLatitude |-> w.view.latitude],
            << <<"touchmove", "touchMove">>, <<"touchend", "stopListeners">>,
               <<"touchstart", "stopListeners">>, <<"mousemove", "mousemove">>,
               <<"mouseup", "stopListeners">> >>)

\* moveGraph(event): originalZoom is assigned in the touch branch only; a
\* mouse event with offsetX = 0, or a touch event with fewer than two
\* touches, throws on event.touches.
moveGraph(ev, w) ==
    IF ~HasOffsetX(ev) /\ ev.n < 2 THEN [w EXCEPT !.threw = TRUE]
    ELSE AddGesture(w,
            [kind |-> "moveGraph",
             originalZoom |-> IF HasOffsetX(ev) THEN Undefined ELSE w.view.zoom],
            << <<"touchmove", "touchMove">>, <<"touchend", "stopListeners">>,
               <<"touchstart", "stopListeners">>, <<"mousemove", "ctrlMove">>,
               <<"mouseup", "stopListeners">> >>)

\* The Shift branch of clickController: shiftMove follows the mouse until a
\* mouseup removes it.
traceGraph(ev, w) ==
    AddGesture(w, [kind |-> "trace"],
               << <<"mousemove", "shiftMove">>, <<"mouseup", "stopTrace">> >>)

\* touchController(event): one touch rotates, two translate
touchController(ev, w) ==
    IF ev.n = 1 THEN rotateGraph(ev, w)
    ELSE IF ev.n = 2 THEN moveGraph(ev, w)
    ELSE w

\* clickController(event) with modifier Shift, Control or none
clickController(ev, modifier, w) ==
    IF modifier = "Shift" THEN traceGraph(ev, w)
    ELSE IF modifier = "Control" THEN rotateGraph(ev, w)
    ELSE moveGraph(ev, w)

\* The (type, function) pairs stopListeners gives removeEventListener: in
\* rotateGraph the functions it added; in moveGraph ctrlMove for touchmove,
\* where the function added was touchMove.
StopListenersRemoves(kind) ==
    IF kind = "rotateGraph"
    THEN { <<"touchmove", "touchMove">>, <<"touchend", "stopListeners">>,
           <<"touchstart", "stopListeners">>, <<"mousemove", "mousemove">> }
    ELSE { <<"touchmove", "ctrlMove">>, <<"touchend", "stopListeners">>,
           <<"touchstart", "stopListeners">>, <<"mousemove", "ctrlMove">> }

\* removeEventListener for each pair of `pairs` and the gesture `id`
RemoveListeners(w, id, pairs) ==
    [w EXCEPT !.listeners =
        SelectSeq(w.listeners,
                  LAMBDA l : ~(l.gesture = id /\ <<l.type, l.fn>> \in pairs))]

\* mousemove of rotateGraph with the pointer at (x, y): both setters, then
\* updateCanvas. (The pointer positions of the model are even, so the halves
\* are whole degrees.)
RotateTo(w, closure, x, y) ==
    LET turned == SetLongitude(w.view, closure.originalLongitude
                                         - ((x - closure.originalX) \div 2))
        tilted == SetLatitude(turned, closure.originalLatitude
                                        + ((y - closure.originalY) \div 2))
    IN  [w EXCEPT !.view = tilted, !.updated = TRUE]

\* ctrlMove of moveGraph: the projected movement `delta` of the pointer is
\* taken from the three inputs, then updateView. With the zoom NaN the
\* projection is NaN and the inputs are left showing nothing.
MoveBy(w, delta) ==
    LET values == IF IsFin(w.view.zoom)
                  THEN [k \in 1..3 |-> InputValue(InputNumber(w.inputs[k]) - delta[k])]
                  ELSE [k \in 1..3 |-> Empty]
    IN  [w EXCEPT !.inputs = values,
                  !.view = updateView(w.view, values),
                  !.updated = TRUE]

\* The call of the listener l for the event ev. `choice` holds what the
\* event's coordinates come to in the model: the projected movement of the
\* pointer and the zoom steps of the pinch.
CallListener(l, ev, w, choice) ==
    LET closure == w.gestures[l.gesture]
    IN  CASE l.fn = "mousemove" -> RotateTo(w, closure, ev.x, ev.y)
          [] l.fn = "touchMove" /\ closure.kind = "rotateGraph" ->
                RotateTo(w, closure, ev.x, ev.y)
          [] l.fn = "touchMove" /\ closure.kind = "moveGraph" ->
                IF ev.n < 2 THEN [w EXCEPT !.threw = TRUE]
                ELSE MoveBy([w EXCEPT !.view.zoom =
                                 IF closure.originalZoom = Undefined THEN NaN
                                 ELSE ZoomBy(closure.originalZoom, choice.zoom)],
                            choice.delta)
          [] l.fn = "ctrlMove" -> MoveBy(w, choice.delta)
          [] l.fn = "stopListeners" ->
                RemoveListeners(w, l.gesture, StopListenersRemoves(closure.kind))
          [] l.fn = "shiftMove" -> [w EXCEPT !.updated = TRUE]
          [] l.fn = "stopTrace" ->
                RemoveListeners(w, l.gesture, { <<"mousemove", "shiftMove">> })

\* The listeners of `ls` are called in order, each one only if it is still
\* registered when its turn comes.
RECURSIVE RunListeners(_, _, _, _)
RunListeners(ls, ev, w, choice) ==
    IF ls = <<>> THEN w
    ELSE IF \E k \in 1..Len(w.listeners) : w.listeners[k] = Head(ls)
    THEN CHOOSE end \in
            { RunListeners(Tail(ls), ev, next, choice) :
                next \in { CallListener(Head(ls), ev, w, choice) } } : TRUE
    ELSE RunListeners(Tail(ls), ev, w, choice)

\* The dispatch of an event on mainCanvas: the controller added when the
\* script was loaded runs first, then the listeners that were registered for
\* the event's type when the dispatch began.
Dispatch(ev, modifier, choice) ==
    LET before == SelectSeq(listeners, LAMBDA l : l.type = ev.type)
        first  == IF ev.type = "mousedown" THEN clickController(ev, modifier, World)
                  ELSE IF ev.type \in {"touchstart", "touchend"}
                  THEN touchController(ev, World)
                  ELSE World
    IN  RunListeners(before, ev, first, choice)

\* The states the model follows: the angles, offsets, zoom and gestures
\* within their bounds.
InViewBounds(w) ==
    /\ w.view.longitude \in Angles
    /\ w.view.latitude \in Angles
    /\ \A k \in 1..3 : w.view.offset[k] \in (0 - MaxOffset - 1)..(MaxOffset + 1)
    /\ IsFin(w.view.zoom) => w.view.zoom.n \in (0 - MaxZoomSteps)..MaxZoomSteps
    /\ Len(w.gestures) <= MaxGestures

\* The handler ends with the world w; updateCanvas when it was called.
ViewHandled(w, type) ==
    /\ InViewBounds(w)
    /\ view' = w.view
    /\ offsetInputs' = w.inputs
    /\ listeners' = w.listeners
    /\ gestures' = w.gestures
    /\ lastEvent' = [type |-> type, threw |-> w.threw]
    /\ IF w.updated THEN updateCanvas ELSE UNCHANGED <<updateRequested, pendingFrames>>
    /\ UNCHANGED <<textarea, functionText, variableList, minX, maxX, resolution,
                   resultList, batchOutcome, frameOutcome, batchStep, drawStep>>
    /\ UNCHANGED <<callVars, cxVars, parseVars, drawVars>>

\* Where the pointer is in the events of the model: (offsetX, offsetY) of a
\* mouse event, (pageX, pageY) of the first touch of a touch event.
MousePoints == { <<0, 30>>, <<30, 30>>, <<60, 60>> }
TouchPoints == { <<30, 30>>, <<60, 60>> }
OffsetDeltas == { <<0, 0, 0>>, <<1, 0, 0>>, <<-1, 0, 0>> }
ZoomChanges == {-1, 0, 1}
NoChoice == [delta |-> <<0, 0, 0>>, zoom |-> 0]

\* mousedown on the canvas
MouseDown(modifier, at) ==
    ViewHandled(Dispatch(MouseEvent("mousedown", at[1], at[2]), modifier, NoChoice),
                "mousedown")

\* mousemove on the canvas
MouseMove(at, delta) ==
    /\ \E k \in 1..Len(listeners) : listeners[k].type = "mousemove"
    /\ ViewHandled(Dispatch(MouseEvent("mousemove", at[1], at[2]), "none",
                            [delta |-> delta, zoom |-> 0]), "mousemove")

\* mouseup on the canvas
MouseUp ==
    /\ \E k \in 1..Len(listeners) : listeners[k].type = "mouseup"
    /\ ViewHandled(Dispatch(MouseEvent("mouseup", 30, 30), "none", NoChoice), "mouseup")

\* touchstart on the canvas with n touch points
TouchStart(n, at) ==
    ViewHandled(Dispatch(TouchEvent("touchstart", n, at[1], at[2]), "none", NoChoice),
                "touchstart")

\* touchmove on the canvas with n touch points
TouchMove(n, at, delta, zoom) ==
    /\ \E k \in 1..Len(listeners) : listeners[k].type = "touchmove"
    /\ ViewHandled(Dispatch(TouchEvent("touchmove", n, at[1], at[2]), "none",
                            [delta |-> delta, zoom |-> zoom]), "touchmove")

\* touchend on the canvas with n touch points remaining
TouchEnd(n, at) ==
    /\ gestures # <<>>
    /\ ViewHandled(Dispatch(TouchEvent("touchend", n, at[1], at[2]), "none", NoChoice),
                   "touchend")

\* wheel on the canvas: deltaY = 100 * k
Wheel(k) ==
    ViewHandled([World EXCEPT !.view.zoom = ZoomBy(view.zoom, k), !.updated = TRUE],
                "wheel")

\* The user types `value` into the offset input k (oninput = updateView).
OffsetInput(k, value) ==
    /\ value # offsetInputs[k]
    /\ LET inputs == [offsetInputs EXCEPT ![k] = value]
       IN  ViewHandled([World EXCEPT !.inputs = inputs,
                                     !.view = updateView(view, inputs),
                                     !.updated = TRUE], "input")

\* The button "Snap camera angle" or Control+Q
SnapAngle ==
    ViewHandled([World EXCEPT !.view = snapAngle(view), !.updated = TRUE], "snapAngle")

\* The button "Snap position" or Control+I
SnapPosition ==
    LET snapped == snapPosition(view, offsetInputs)
    IN  ViewHandled([World EXCEPT !.view = snapped.view, !.inputs = snapped.inputs,
                                  !.updated = TRUE], "snapPosition")

\* The projection dropdown changes to `type`.
ProjectionChange(type) ==
    /\ type # view.projection
    /\ ViewHandled([World EXCEPT !.view.projection = type, !.updated = TRUE],
                   "projection")

NumpadKeys == {"0", "1", "2", "3", "4", "5", "6", "7", "8", "9", "-", "+"}

\* The view after the numpad key `key` (the switch of lines 1130-1191).
NumpadView(key, v) ==
    CASE key = "0" -> [v EXCEPT !.offset = <<0, 0, 0>>]
      [] key = "1" -> SetLongitude(SetLatitude(v, 0), 0)
      [] key = "2" -> SetLatitude(v, v.latitude - 15)
      [] key = "3" -> SetLongitude(SetLatitude(v, 0), 90)
      [] key = "4" -> SetLongitude(v, v.longitude - 15)
      [] key = "5" -> [v EXCEPT !.projection = IF v.projection = "perspective"
                                                THEN "orthogonal" ELSE "perspective"]
      [] key = "6" -> SetLongitude(v, v.longitude + 15)
      [] key = "7" -> SetLongitude(SetLatitude(v, 90), 0)
      [] key = "8" -> SetLatitude(v, v.latitude + 15)
      [] key = "9" -> SetLongitude(SetLatitude(v, 0), 180)
      [] key = "-" -> [v EXCEPT !.zoom = ZoomBy(v.zoom, 1)]
      [] key = "+" -> [v EXCEPT !.zoom = ZoomBy(v.zoom, -1)]

\* keydown of a numpad key while no element has the focus
NumpadKey(key) ==
    ViewHandled([World EXCEPT !.view = NumpadView(key, view), !.updated = TRUE],
                "keydown")

\* The page as loaded, the first frame drawn.
ViewInit == Init

\* The offset inputs the user types into: x-offset and y-offset.
TypedInputs == 1..2

\* The handlers of the keys, buttons and inputs that change the view.
ViewNext ==
    \/ \E k \in ZoomChanges \ {0} : Wheel(k)
    \/ \E k \in TypedInputs : \E h \in 0..MaxOffset : OffsetInput(k, InputValue(h))
    \/ \E k \in TypedInputs : OffsetInput(k, Empty)
    \/ SnapAngle
    \/ SnapPosition
    \/ \E type \in {"perspective", "orthogonal"} : ProjectionChange(type)
    \/ \E key \in NumpadKeys : NumpadKey(key)

\* The mouse and touch events on the canvas.
GestureNext ==
    \/ \E m \in {"Shift", "Control", "none"} : \E at \in MousePoints : MouseDown(m, at)
    \/ \E at \in MousePoints : \E delta \in OffsetDeltas : MouseMove(at, delta)
    \/ MouseUp
    \/ \E n \in 1..3 : \E at \in TouchPoints : TouchStart(n, at)
    \/ \E n \in 1..2 : \E at \in TouchPoints :
         \E delta \in OffsetDeltas : \E zoom \in ZoomChanges :
            TouchMove(n, at, delta, zoom)
    \/ \E n \in 0..2 : \E at \in TouchPoints : TouchEnd(n, at)

GestureSpec == ViewInit /\ [][GestureNext]_vars

ViewSpec == ViewInit /\ [][ViewNext]_vars

-----------------------------------------------------------------------------
(* drawCanvas3d and the clipping of a line at the camera *)

\* Math.cos and Math.sin of a whole number of quarter turns, in degrees
CosDeg(a) == CASE Mod360(a) = 0 -> 1
               [] Mod360(a) = 90 -> 0
               [] Mod360(a) = 180 -> 0 - 1
               [] Mod360(a) = 270 -> 0
SinDeg(a) == CosDeg(a - 90)

\* view.zoom in hundredths: the zoom is 5 at the start and each step
\* multiplies it by 10^0.1.
ZoomHundredths(zoom) == CASE zoom.n = 0 -> 500
                          [] zoom.n = 1 -> 629
                          [] zoom.n = 0 - 1 -> 397
                          [] zoom.n = 2 -> 792
                          [] zoom.n = 0 - 2 -> 315

\* The third row of view.matrix. With one of the two angles 0, as in the
\* views the numpad keys 1, 3, 7 and 9 set, both orders of the product of
\* latMatrix and longMatrix have this third row.
ThirdRow(m) == << 0 - (CosDeg(m.la) * SinDeg(m.lo)), 0 - SinDeg(m.la),
                  CosDeg(m.la) * CosDeg(m.lo) >>

\* transformed[2] + this.zoom of calculateClip for `point`, in hundredths
\* (the offsets are held in halves)
Depth(v, point) ==
    LET row == ThirdRow(v.matrix)
        z(k) == row[k] * (2 * point[k] - v.offset[k])
    IN  50 * (z(1) + z(2) + z(3)) + ZoomHundredths(v.zoom)

\* A point with whole coordinates, each coordinate as a fraction
Whole(point) == [k \in 1..3 |-> [num |-> point[k], den |-> 1]]

\* [kept - (kept - behind) * c * 0.99] with c = depth / Math.abs(dz)
Cut(kept, behind, depth, absdz) ==
    [k \in 1..3 |-> [num |-> kept[k] * 100 * absdz - (kept[k] - behind[k]) * 99 * depth,
                     den |-> 100 * absdz]]

\* The null calculateClip returns
Null == <<>>

\* View.calculateClip(lineStart, lineEnd)
calculateClip(v, lineStart, lineEnd) ==
    LET transformed1 == Depth(v, lineStart)
        transformed2 == Depth(v, lineEnd)
        dz == transformed2 - transformed1
        absdz == IF dz < 0 THEN 0 - dz ELSE dz
    IN  IF transformed1 < 0 \/ transformed2 < 0
        THEN IF (transformed1 < 0) # (transformed2 < 0)
             THEN IF transformed1 < 0
                  THEN << Whole(lineEnd), Cut(lineEnd, lineStart, transformed2, absdz) >>
                  ELSE << Whole(lineStart), Cut(lineStart, lineEnd, transformed1, absdz) >>
             ELSE Null
        ELSE << Whole(lineStart), Whole(lineEnd) >>

\* new LineStyle(width, color), the width in half pixels
LineStyle(width, color) == [width |-> width, color |-> color]

\* drawCanvas3d(canvas, lineStart, lineEnd, lineStyle, view) with the
\* context c: the context it leaves and the segment it strokes.
drawCanvas3d(c, lineStart, lineEnd, lineStyle, v) ==
    LET originalStyle == LineStyle(c.lineWidth, c.strokeStyle)
        styled == [lineWidth |-> lineStyle.width, strokeStyle |-> lineStyle.color]
        restored == [lineWidth |-> originalStyle.width,
                     strokeStyle |-> originalStyle.color]
        clipped == calculateClip(v, lineStart, lineEnd)
    IN  IF v.projection = "perspective"
        THEN IF clipped = Null
             THEN [ctx |-> styled, stroked |-> NoStroke]
             ELSE [ctx |-> restored,
                   stroked |-> [from |-> clipped[1], to |-> clipped[2]]]
        ELSE [ctx |-> restored,
              stroked |-> [from |-> Whole(lineStart), to |-> Whole(lineEnd)]]

\* The six calls of drawAxisLines (devicePixelRatio 1)
AxisLines ==
    { [start |-> <<0 - 20, 0, 0>>, end |-> <<0, 0, 0>>, style |-> LineStyle(2, "#00FF00")],
      [start |-> <<20, 0, 0>>, end |-> <<0, 0, 0>>, style |-> LineStyle(4, "#00FF00")],
      [start |-> <<0, 0 - 20, 0>>, end |-> <<0, 0, 0>>, style |-> LineStyle(2, "#FF0000")],
      [start |-> <<0, 20, 0>>, end |-> <<0, 0, 0>>, style |-> LineStyle(4, "#FF0000")],
      [start |-> <<0, 0, 0 - 20>>, end |-> <<0, 0, 0>>, style |-> LineStyle(2, "#0000FF")],
      [start |-> <<0, 0, 20>>, end |-> <<0, 0, 0>>, style |-> LineStyle(4, "#0000FF")] }

\* The calls of drawFunction for a sample at x whose value is re + im i and
\* whose predecessor, one unit before, is 0.
FunctionLines(x, re, im) ==
    { [start |-> <<x, 0, 0>>, end |-> <<x, re, 0>>, style |-> LineStyle(1, "#FF4444")],
      [start |-> <<x, 0, 0>>, end |-> <<x, 0, im>>, style |-> LineStyle(1, "#4444FF")],
      [start |-> <<x - 1, 0, 0>>, end |-> <<x, re, im>>,
       style |-> LineStyle(3, "functionColor")] }

\* The lines of the model: the axes, and the samples at 0 and at MaxDrawX
\* with the values 0, 1, i and 1 + i.
DrawnLines ==
    AxisLines \cup UNION { FunctionLines(x, re, im) :
                             x \in {0, MaxDrawX}, re \in 0..1, im \in 0..1 }

\* The numpad keys that set the angles to quarter turns, and the key that
\* changes the projection.
DrawKeys == {"1", "3", "5", "7", "9"}

\* One call of drawCanvas3d with the current view. The model follows the
\* calls made while both angles are quarter turns.
DrawLine(line) ==
    /\ view.matrix.lo % 90 = 0
    /\ view.matrix.la % 90 = 0
    /\ LET out == drawCanvas3d(ctx, line.start, line.end, line.style, view)
       IN  /\ ctx' = out.ctx
           /\ stroked' = out.stroked
    /\ UNCHANGED <<pageVars, callVars, cxVars, parseVars, viewVars>>

DrawNext ==
    \/ \E key \in DrawKeys : NumpadKey(key)
    \/ \E line \in DrawnLines : DrawLine(line)

DrawSpec == ViewInit /\ [][DrawNext]_vars

-----------------------------------------------------------------------------
(* Properties of userFunction (EvalSpec) *)

\* The token the running call executes next, trimmed as line 637 does.
AtLine == trim(functionList[pc])
Running == status = "running" /\ pc <= Len(functionList)

\* The call is about to run an operation on a stack shorter than its arity.
AtShortOperation ==
    /\ Running
    /\ IsOperation(AtLine)
    /\ Len(functionStack) < OperationArgs(AtLine)

\* The call is about to run an assignment on the empty stack.
AtEmptyAssignment ==
    /\ Running
    /\ AtLine # <<>>
    /\ AtLine[1] = "="
    /\ functionStack = <<>>

\* The line is a name: not x, not blank, not a comment, not an assignment and
\* not an operation.
IsName(line) ==
    /\ line # <<>>
    /\ line # <<"x">>
    /\ line[1] \notin {"#", "="}
    /\ ~IsOperation(line)

\* A numeric literal: digits, with an optional sign before and an optional i
\* after, or i alone.
IsNumericLiteral(line) ==
    LET body   == IF line # <<>> /\ line[Len(line)] = "i"
                  THEN SubSeq(line, 1, Len(line) - 1) ELSE line
        digits == IF body # <<>> /\ body[1] \in {"+", "-"} THEN Tail(body) ELSE body
    IN  line = <<"i">> \/ AllDigits(digits)

\* The call is about to run a name that nothing defines.
AtUnknownName ==
    /\ Running
    /\ IsName(AtLine)
    /\ getVariableIndex(variableList, AtLine) = -1
    /\ ~HasProperty(calculatedVars, AtLine)
    /\ ~IsNumericLiteral(AtLine)

\* The call is about to run a name that both the registry and an earlier
\* assignment of this call define, with different values.
AtShadowedName ==
    /\ Running
    /\ IsName(AtLine)
    /\ getVariableIndex(variableList, AtLine) # -1
    /\ HasProperty(calculatedVars, AtLine)

Failed(s) == s \in {"TypeError", "RangeError", "ParseError"}

C2_EmptyAssignmentFails ==
    [][ AtEmptyAssignment =>
            /\ Failed(status')
            /\ calculatedVars' = calculatedVars ]_vars

\* C3 (as claimed): a name that is in neither the calculated variables nor the
\* registry, and is no numeric literal, makes the call fail; no NaN value is
\* pushed for it.
C3_UnknownNameFails ==
    [][ AtUnknownName =>
            /\ Failed(status')
            /\ functionStack' = functionStack ]_vars

\* C4 (as claimed): a name bound by an earlier assignment of the call and also
\* present in the registry pushes the calculated value.
C4_CalculatedBeforeRegistry ==
    [][ AtShadowedName =>
            functionStack' = Append(functionStack, calculatedVars[AtLine]) ]_vars

\* C4 (amended): a name bound by an earlier assignment of the call and also
\* present in the registry pushes the registry's value: the registry is
\* consulted before the calculated variables.
C4_RegistryBeforeCalculated ==
    [][ AtShadowedName =>
            functionStack' = Append(functionStack,
                variableList[getVariableIndex(variableList, AtLine) + 1].value) ]_vars

\* C4 witness: the last step ran the name a, which the registry holds as 7 and
\* this call's assignment holds as another value, and pushed 7.
C4_Witness ==
    /\ status = "running"
    /\ pc > 1
    /\ trim(functionList[pc - 1]) = <<"a">>
    /\ getVariableIndex(variableList, <<"a">>) # -1
    /\ HasProperty(calculatedVars, <<"a">>)
    /\ calculatedVars[<<"a">>].tag = "Complex"
    /\ calculatedVars[<<"a">>] # Complex(Fin(7), Fin(0))
    /\ functionStack # <<>>
    /\ functionStack[Len(functionStack)] = Complex(Fin(7), Fin(0))

\* C5: the result of a call depends only on its argument: every call starts
\* with an empty stack and no calculated variable, and all the calls made with
\* one argument, in whatever order the arguments come, end the same way with
\* the same result.
C5_SamplesIndependent ==
    /\ (status = "running" /\ pc = 1) =>
            (functionStack = <<>> /\ calculatedVars = EmptyObject)
    /\ \A r1, r2 \in returned : r1.arg = r2.arg => r1 = r2

\* C5 witness: a call starts again for an argument already evaluated, after a
\* call for another argument has bound its x to a and returned.
C5_Witness ==
    /\ status = "running"
    /\ pc = 1
    /\ \E k \in 2..Len(functionList) :
          functionList[k - 1] = <<"x">> /\ functionList[k] = <<"=", "a">>
    /\ \E r \in returned : r.arg = num /\ r.outcome = "returned"
    /\ \E r \in returned : r.arg # num /\ r.outcome = "returned"

-----------------------------------------------------------------------------
(* Properties of the Complex operations (ComplexSpec) *)

IsZero(v) == v.re = Fin(0) /\ v.im = Fin(0)

\* C10 (as claimed): divide(a, b) is multiply(a, raise(b, -1)), and it is
\* (NaN, NaN) when b is zero.
C10_DivideByZeroIsNaN ==
    cxOp = "divide" =>
        /\ cxOut = multiply(cxA, raise(cxB, NumberValue(Fin(-1))))
        /\ IsZero(cxB) => cxOut = Complex(NaN, NaN)

\* The components of v are numbers and one of them is not 0.
NonzeroMagnitude(v) == /\ ~IsNaN(v.re) /\ ~IsNaN(v.im)
                       /\ ~IsZero(v)

\* C11 (as claimed): raise(0, e) is exactly Complex(0, 0) for every exponent
\* e of non-zero magnitude, and the special case is not taken for e = 0.
C11_ZeroBaseIsZero ==
    (cxOp = "raise" /\ IsZero(cxA)) =>
        /\ NonzeroMagnitude(cxB) => cxOut = Complex(Fin(0), Fin(0))
        /\ IsZero(cxB) => cxOut # Complex(Fin(0), Fin(0))

-----------------------------------------------------------------------------
(* Properties of the batch (Spec) *)

\* The domain the specification gives the batch: [min(min,max), max(min,max)].
EffectiveDomain(mn, mx) == [begin |-> Min(mn, mx), end |-> Max(mn, mx)]

\* The step the specification gives the batch: 0.05 for 0, else the absolute
\* value.
EffectiveStep(res) == IF res = 0 THEN [num |-> 1, den |-> DefaultResolutionDenominator]
                      ELSE Step(Abs(res))

\* floor((end - begin) / step) + 1
SampleCount(dom, step) == ((dom.end - dom.begin) * step.den) \div step.num + 1

\* C6 (as claimed): after updateFunctionValues, resultList holds exactly
\* floor((end - begin) / step) + 1 entries for the domain and step of the
\* inputs, and entry i is the result of the function at begin + i * step.
C6_OneEntryPerSample ==
    batchOutcome = "ok" =>
        LET dom  == EffectiveDomain(minX, maxX)
            step == EffectiveStep(resolution)
        IN  /\ Len(resultList) = SampleCount(dom, step)
            /\ step.den = 1 =>
                 \A i \in 0..(Len(resultList) - 1) :
                    resultList[i + 1] =
                        userFunction(Complex(Fin(dom.begin + i * step.num), Fin(0)),
                                     functionText, variableList).stack

\* C7 (as claimed): with min and max swapped the batch evaluates the samples
\* of [min(min,max), max(min,max)]: resultList is not empty and is the one the
\* inputs in order give.
C7_DomainOrderIndependent ==
    (batchOutcome = "ok" /\ resolution # 0) =>
        /\ resultList # <<>>
        /\ resultList = updateFunctionValues(functionText, variableList,
                            Min(minX, maxX), Max(minX, maxX), resolution).list

\* C8 (as claimed): the batch uses the effective step of the resolution input
\* (0.05 for 0, the absolute value for a negative one), a positive step, and
\* the frame drawn after the batch uses the same step.
C8_SameEffectiveStep ==
    /\ batchStep = EffectiveStep(resolution)
    /\ batchStep.num > 0
    /\ (batchOutcome = "ok" /\ ~updateRequested) => drawStep = batchStep

\* C9 (as claimed): updateFunctionValues ends after finitely many samples for
\* every minX, maxX and resolution.
C9_BatchTerminates == batchOutcome # "hung"

\* C12 (as claimed): functionText changes only in the set-function action;
\* a change of minX, maxX or resolution leaves it as it is, whatever the
\* textarea holds.
C12_OnlySetFunctionChangesText ==
    [][ functionText' # functionText => SetFunction ]_vars

\* C14 (as claimed): when the evaluation of a sample fails during a batch,
\* resultList keeps the results it held before the batch.
C14_FailedBatchKeepsResults ==
    [][ Failed(batchOutcome') => resultList' = resultList ]_vars

\* The call is about to run the assignment of a value: =name on a stack that
\* is not empty.
AtAssignment ==
    /\ Running
    /\ AtLine # <<>>
    /\ AtLine[1] = "="
    /\ functionStack # <<>>

\* The call is about to run a name that an assignment of this call has bound
\* and the registry does not hold.
AtBoundName ==
    /\ Running
    /\ IsName(AtLine)
    /\ getVariableIndex(variableList, AtLine) = -1
    /\ HasProperty(calculatedVars, AtLine)

\* x, =a, a, a, * at x = 5
SquareByReuse ==
    RunFrom(<< <<"x">>, <<"=", "a">>, <<"a">>, <<"a">>, <<"*">> >>, 1,
            Complex(Fin(5), Fin(0)), DefaultVariables, <<>>, EmptyObject)

\* 2, =a, x, =a, a at x = 5: the second assignment overwrites the first
Overwritten ==
    RunFrom(<< <<"2">>, <<"=", "a">>, <<"x">>, <<"=", "a">>, <<"a">> >>, 1,
            Complex(Fin(5), Fin(0)), DefaultVariables, <<>>, EmptyObject)

\* C15: =name pops the top v of the stack and binds name to v, overwriting
\* an earlier binding; no other token changes the calculated variables; and a
\* later token name, for a name the registry does not hold, pushes the value
\* bound to name. So x, =a, a, a, * at x = 5 returns the single value
\* Complex(25, 0).
C15_AssignedValueReused ==
    /\ SquareByReuse = [stack |-> << Complex(Fin(25), Fin(0)) >>, threw |-> "no"]
    /\ Overwritten = [stack |-> << Complex(Fin(5), Fin(0)) >>, threw |-> "no"]
    /\ [][ /\ AtAssignment =>
                /\ functionStack' = SubSeq(functionStack, 1, Len(functionStack) - 1)
                /\ calculatedVars' = SetProperty(calculatedVars, trim(Tail(AtLine)),
                                                 functionStack[Len(functionStack)])
           /\ (Running /\ AtLine # <<>> /\ AtLine[1] # "=" /\ status' = "running") =>
                calculatedVars' = calculatedVars
           /\ AtBoundName =>
                functionStack' = Append(functionStack, calculatedVars[AtLine])
         ]_vars

\* C15 witness: the call of x, =a, a has returned its argument, read back
\* from the calculated variable a (the registry holds no a).
C15_Witness ==
    /\ status = "returned"
    /\ functionList = << <<"x">>, <<"=", "a">>, <<"a">> >>
    /\ getVariableIndex(variableList, <<"a">>) = -1
    /\ HasProperty(calculatedVars, <<"a">>)
    /\ calculatedVars[<<"a">>] = num
    /\ functionStack = << num >>

\* The call is about to run an operation on a stack that holds at least as
\* many values as its arity.
AtFullOperation ==
    /\ Running
    /\ IsOperation(AtLine)
    /\ Len(functionStack) >= OperationArgs(AtLine)

\* x, 2, - at x = 5
FiveMinusTwo ==
    RunFrom(<< <<"x">>, <<"2">>, <<"-">> >>, 1,
            Complex(Fin(5), Fin(0)), DefaultVariables, <<>>, EmptyObject)

\* C16 (as claimed): on a stack of at least k values an operation of arity k
\* replaces the top k values by the one result of the operation applied to
\* them in the order they were pushed, and leaves the values below as they
\* were; x, 2, - computes x - 2.
C16_OperationReplacesTop ==
    /\ FiveMinusTwo = [stack |-> << Complex(Fin(3), Fin(0)) >>, threw |-> "no"]
    /\ [][ AtFullOperation =>
              LET k     == OperationArgs(AtLine)
                  below == SubSeq(functionStack, 1, Len(functionStack) - k)
                  top   == SubSeq(functionStack, Len(functionStack) - k + 1,
                                  Len(functionStack))
              IN  /\ status' = "running"
                  /\ functionStack' = Append(below, ApplyOperation(AtLine, top))
         ]_vars

\* x, 2 at x = 5: two values pushed and none consumed
TwoCurves ==
    RunFrom(<< <<"x">>, <<"2">> >>, 1,
            Complex(Fin(5), Fin(0)), DefaultVariables, <<>>, EmptyObject)

\* The step is the return of the running call, and its result is the stack
\* as the last token left it.
ReturnsStack ==
    (status = "running" /\ status' = "returned") =>
        /\ functionStack' = functionStack
        /\ [arg |-> num, outcome |-> "returned", result |-> functionStack] \in returned'

C18_XPushesComplex ==
    [][ (Running /\ AtLine = <<"x">>) =>
            /\ functionStack' = Append(functionStack, AsComplex(num))
            /\ functionStack'[Len(functionStack')].tag = "Complex" ]_vars

\* The indexes (1-based) of the registry entries named `name`.
EntriesNamed(list, name) == { i \in 1..Len(list) : list[i].name = name }

\* The lowest of a non-empty set of indexes.
Lowest(S) == CHOOSE i \in S : \A j \in S : i <= j

\* C19: getVariableIndex gives the lowest index holding the name and -1 only
\* when no entry holds it; a name token the registry holds pushes the value of
\* that lowest entry, whatever later entries of the same name hold.
C19_FirstMatch ==
    [][ (Running /\ IsName(AtLine)) =>
            LET named == EntriesNamed(variableList, AtLine)
            IN  /\ (getVariableIndex(variableList, AtLine) = -1) <=> (named = {})
                /\ named # {} =>
                     /\ getVariableIndex(variableList, AtLine) = Lowest(named) - 1
                     /\ functionStack' =
                           Append(functionStack, variableList[Lowest(named)].value)
      ]_vars

\* C19 witness: the last step ran the name a, which two registry entries
\* hold with different values, and pushed the value of the first of them.
C19_Witness ==
    /\ status = "running"
    /\ pc > 1
    /\ trim(functionList[pc - 1]) = <<"a">>
    /\ \E i, j \in EntriesNamed(variableList, <<"a">>) :
          /\ i < j
          /\ variableList[i].value # variableList[j].value
          /\ i = Lowest(EntriesNamed(variableList, <<"a">>))
          /\ functionStack # <<>>
          /\ functionStack[Len(functionStack)] = variableList[i].value

IsComment(line) == line # <<>> /\ line[1] = "#"

\* A blank line: nothing but whitespace.
IsBlank(line) == trim(line) = <<>>

\* The lines of a program that are neither blank nor comments.
Uncommented(lines) == SelectSeq(lines, LAMBDA l : ~IsBlank(l) /\ ~IsComment(l))

\* Function texts of blank lines, comment lines and assignment lines (the
\* lines that lines 619-622 handle themselves).
CommentedTexts ==
    UNION { [1..k -> { <<>>, <<" ">>, <<"#">>, <<"#", " ", "x">>, <<"=", "a">> }] :
              k \in 0..MaxPageLines }

\* The outcome of the call of userFunction(arg) on the function list `tokens`.
CallOutcome(tokens, arg, list) ==
    LET end == RunFrom(tokens, 1, arg, list, <<>>, NewCalculatedVars)
    IN  IF end.threw = "no"
        THEN [arg |-> arg, outcome |-> "returned", result |-> end.stack]
        ELSE [arg |-> arg, outcome |-> end.threw, result |-> <<>>]

\* C20: blank lines and comment lines (beginning with #) contribute nothing.
\* A blank line never reaches functionList and a comment line reaches it
\* whole; the loop turn on a comment line changes neither the stack nor the
\* calculated variables; and every call ends as the call on the program
\* without its comment lines ends.
C20_CommentsContributeNothing ==
    /\ \A text \in CommentedTexts :
          BuildFunctionList(text, <<>>) =
             [tokens |-> SelectSeq(text, LAMBDA l : ~IsBlank(l)), threw |-> "no"]
    /\ [][ /\ (Running /\ IsComment(functionList[pc])) =>
                 /\ functionStack' = functionStack
                 /\ calculatedVars' = calculatedVars
                 /\ status' = status
                 /\ pc' = pc + 1
            /\ \A r \in returned' \ returned :
                 r = CallOutcome(Uncommented(functionList), r.arg, variableList)
        ]_vars

\* A call has returned a value from a program that holds a comment line
\* between its other lines.
C20_Witness ==
    /\ status = "returned"
    /\ functionStack # <<>>
    /\ \E k \in 2..Len(functionList) :
          IsComment(functionList[k]) /\ ~IsComment(functionList[k - 1])

\* C21: parseNumber handles the imaginary suffix and implicit coefficients:
\* "3i" is Complex(0, 3), "i" is Complex(0, 1), "-i" is Complex(0, -1) and
\* "4-3i" is Complex(4, -3), in the parseNumber of the page script.
C21_ImaginaryForms ==
    parsed # Undefined =>
        /\ numberText = <<"3", "i">> => parsed = Complex(Fin(0), Fin(3))
        /\ numberText = <<"i">> => parsed = Complex(Fin(0), Fin(1))
        /\ numberText = <<"-", "i">> => parsed = Complex(Fin(0), Fin(-1))
        /\ numberText = <<"4", "-", "3", "i">> => parsed = Complex(Fin(4), Fin(-3))

\* C22: in every reachable state view.matrix is the rotation computed from
\* the current longitude and latitude.
C22_MatrixFollowsAngles ==
    view.matrix = RotationMatrix(view.longitude, view.latitude)

\* A handler has changed both angles of the view.
C22_Witness ==
    /\ lastEvent.type \in {"keydown", "snapAngle", "mousemove", "touchmove"}
    /\ Mod360(view.longitude) # Mod360(InitialView.longitude)
    /\ Mod360(view.latitude) # Mod360(InitialView.latitude)

\* The indexes of resultList that the loops of drawFunction read: 0, and
\* every i >= 1 with i <= (end - begin) / step.
DrawIndexes(dom, step) ==
    {0} \cup { i \in 1..((dom.end - dom.begin) * step.den) :
                 LoopContinues(i, dom.begin, dom.end, step) }

\* A frame runs in this step.
FrameRuns == pendingFrames' < pendingFrames

\* C23: whenever a redraw runs drawFunction, resultList has a defined entry
\* at every index the draw loop reads, for the normalized domain and the
\* step that updateCanvas passes.
C23_DrawnEntriesDefined ==
    [][ FrameRuns =>
          \A i \in DrawIndexes(DrawDomain(minX, maxX), DrawStep(resolution)) :
             Defined(resultList, i) ]_vars

\* C24: at most one animation-frame redraw is pending at any time, and the
\* updateCanvas calls since the last frame have scheduled exactly one
\* callback: while an update is requested, one callback is pending.
C24_OneFramePending ==
    /\ pendingFrames <= 1
    /\ updateRequested => pendingFrames = 1

\* The callback of requestAnimationFrame is run whenever one is pending.
LiveSpec == Spec /\ WF_vars(AnimationFrame)

\* C25: every call of updateCanvas is eventually followed by a redraw after
\* which updateRequested is false again.
C25_RedrawFollows == updateRequested ~> ~updateRequested


\* C27: after every handler view.offset holds the numbers of the x-offset,
\* y-offset and z-offset inputs.
C27_OffsetMatchesInputs == view.offset = InputNumbers(offsetInputs)


\* The listeners of `ls` for mousemove or touchmove that a gesture of kind
\* `kind` among the first `count` gestures of `gs` added.
MoveListeners(ls, gs, count, kind) ==
    { k \in 1..Len(ls) : /\ ls[k].type \in {"mousemove", "touchmove"}
                         /\ ls[k].gesture <= count
                         /\ gs[ls[k].gesture].kind = kind }

\* A mouseup, touchend or touchstart has been handled.
GestureEnds == /\ lastEvent' # lastEvent \/ listeners' # listeners
               /\ lastEvent'.type \in {"mouseup", "touchend", "touchstart"}

\* C26: when a mouseup, a touchend or a new touchstart ends the drag
\* gestures, no mousemove or touchmove listener of a rotateGraph or moveGraph
\* gesture that began before the event is left on the canvas.
C26_MoveListenersRemoved ==
    [][GestureEnds =>
          \A kind \in {"rotateGraph", "moveGraph"} :
              MoveListeners(listeners', gestures', Len(gestures), kind) = {}]_vars

\* C28: every call of drawCanvas3d leaves ctx.lineWidth and ctx.strokeStyle
\* as they were before the call.
C28_StyleRestored == [][ctx' = ctx]_vars

\* The call runs a name through the branch of calculated variables: the name
\* is not in the registry and `line in calculatedVars` holds.
AtCalculatedBranch ==
    /\ Running
    /\ IsName(AtLine)
    /\ getVariableIndex(variableList, AtLine) = -1
    /\ HasProperty(calculatedVars, AtLine)

\* An earlier line of the running call is the assignment =name.
AssignedEarlier(name) ==
    \E j \in 1..(pc - 1) :
        LET line == trim(functionList[j])
        IN  line # <<>> /\ line[1] = "=" /\ trim(Tail(line)) = name

\* C29: a name is resolved as a calculated variable only when an earlier
\* =name line of the same call bound it.
C29_OnlyAssignedNames ==
    [][AtCalculatedBranch => AssignedEarlier(AtLine)]_vars

\* C30: the line x pushes the sample input, and an operation's symbol runs the
\* operation on the stack, whatever the registry and the calculated variables
\* hold under that name; neither is read or changed by the turn.
C30_FixedPrecedence ==
    [][Running =>
          /\ AtLine = <<"x">> =>
                /\ functionStack' = Append(functionStack, num)
                /\ calculatedVars' = calculatedVars
                /\ status' = "running"
          /\ IsOperation(AtLine) =>
                /\ \E run \in { RunOperation(AtLine, functionStack) } :
                      IF run.threw # "no"
                      THEN status' = run.threw /\ functionStack' = functionStack
                      ELSE status' = "running" /\ functionStack' = run.stack
                /\ calculatedVars' = calculatedVars]_vars

\* C30 witness: x, =abs, x, abs has returned [abs(1)] with the registry
\* holding constants named x and abs and calculatedVars holding abs.
C30_Witness ==
    /\ status = "returned"
    /\ functionList = << <<"x">>, <<"=", "a", "b", "s">>, <<"x">>, <<"a", "b", "s">> >>
    /\ getVariableIndex(variableList, <<"x">>) # -1
    /\ getVariableIndex(variableList, <<"a", "b", "s">>) # -1
    /\ <<"a", "b", "s">> \in DOMAIN calculatedVars
    /\ num = Complex(Fin(1), Fin(0))
    /\ functionStack = << abs(num) >>

====
